---- MODULE Spec2Model ----
(***************************************************************************)
(* A model of prepare_app.py (class SplunkAppPrep): the six-step           *)
(* preparation pipeline over a filesystem tree.                            *)
(*                                                                         *)
(* The filesystem is a function from a finite universe of absolute paths   *)
(* (tuples of names) to entries.  Every step is one action that applies    *)
(* the whole method, computed by an operator that follows the method's     *)
(* code, including the library calls it makes (pathlib, os, shutil,        *)
(* configparser, tarfile) as CPython 3.11 on POSIX executes them.          *)
(***************************************************************************)
EXTENDS Integers, Sequences, FiniteSets, TLC

VARIABLES
    fs,       \* the filesystem: [U -> entry]
    tars,     \* the members of each archive file: [TarNodes -> Seq(member)]
    cwd,      \* the process working directory (an absolute path)
    pc,       \* the position inside prepare_app
    run,      \* which call of prepare_app is executing (1..MaxRuns)
    steps,    \* the steps the current call has executed, in order
    errors,   \* the steps of the current call that logged an error
    walk,     \* what the last set_permissions did: chmod and scandir events
    used,     \* the directory each executed step resolved the root to
    env,      \* what the run is given: app_path, uid, umask, directory order
    fs0,      \* the filesystem before the first call
    before,   \* the filesystem when the current call started
    start     \* the working directory when the current call started

vars == <<fs, tars, cwd, pc, run, steps, errors, walk, used, env, fs0, before, start>>

(***************************************************************************)
(* Bounds of the model.                                                    *)
(***************************************************************************)
MaxRuns == 2
MaxLines == 3

(***************************************************************************)
(* Paths.  W is the directory the process starts in, S the parent of the   *)
(* application root R.  S2 and R2 are where the relative path sub/app      *)
(* leads once the working directory has moved to S.                        *)
(***************************************************************************)
W == <<"w">>
S == <<"w", "sub">>
R == <<"w", "sub", "app">>
S2 == <<"w", "sub", "sub">>
R2 == <<"w", "sub", "sub", "app">>

U ==
    { W, S, R, S2, R2,
      R \o <<"default">>, R \o <<"default", "app.conf">>,
      R \o <<"bin">>, R \o <<"bin", "run.py">>,
      R \o <<"bin", "x.log">>, R \o <<"bin", "x.log", "y.log">>,
      R \o <<"metadata">>, R \o <<"metadata", "local.meta">>,
      R \o <<"metadata", "default.meta">>,
      R \o <<"__pycache__">>, R \o <<"__pycache__", "x.pyc">>,
      R \o <<"__pycache__", "debug.log">>,
      R \o <<".git">>, R \o <<".git", "config">>,
      R \o <<"notes">>, R \o <<".tar.gz">>,
      S \o <<"app.tar.gz">>,
      R2 \o <<"metadata">>, R2 \o <<"metadata", "default.meta">>,
      S2 \o <<"app.tar.gz">> }

TarNodes == { S \o <<"app.tar.gz">>, S2 \o <<"app.tar.gz">>, R \o <<".tar.gz">> }

Parent(p) == SubSeq(p, 1, Len(p) - 1)
Name(p) == p[Len(p)]

\* The characters of every name of the universe.
Spell ==
    "w" :> <<"w">>
    @@ "sub" :> <<"s", "u", "b">>
    @@ "app" :> <<"a", "p", "p">>
    @@ "default" :> <<"d", "e", "f", "a", "u", "l", "t">>
    @@ "bin" :> <<"b", "i", "n">>
    @@ "metadata" :> <<"m", "e", "t", "a", "d", "a", "t", "a">>
    @@ "config" :> <<"c", "o", "n", "f", "i", "g">>
    @@ "notes" :> <<"n", "o", "t", "e", "s">>
    @@ "app.conf" :> <<"a", "p", "p", ".", "c", "o", "n", "f">>
    @@ "run.py" :> <<"r", "u", "n", ".", "p", "y">>
    @@ "x.log" :> <<"x", ".", "l", "o", "g">>
    @@ "y.log" :> <<"y", ".", "l", "o", "g">>
    @@ "debug.log" :> <<"d", "e", "b", "u", "g", ".", "l", "o", "g">>
    @@ "local.meta" :> <<"l", "o", "c", "a", "l", ".", "m", "e", "t", "a">>
    @@ "default.meta" :> <<"d", "e", "f", "a", "u", "l", "t", ".", "m", "e", "t", "a">>
    @@ "__pycache__" :> <<"_", "_", "p", "y", "c", "a", "c", "h", "e", "_", "_">>
    @@ "x.pyc" :> <<"x", ".", "p", "y", "c">>
    @@ ".git" :> <<".", "g", "i", "t">>
    @@ ".tar.gz" :> <<".", "t", "a", "r", ".", "g", "z">>
    @@ "app.tar.gz" :> <<"a", "p", "p", ".", "t", "a", "r", ".", "g", "z">>

\* os.scandir's order of the names of one directory (unspecified by the
\* platform: env.rev reverses it), and sorted()'s order of the same names.
ScanOrder ==
    << "default", "bin", "metadata", "__pycache__", ".git", "notes", ".tar.gz",
       "app.conf", "x.log", "run.py", "y.log", "local.meta", "default.meta",
       "debug.log", "x.pyc", "config", "app", "sub", "app.tar.gz", "w" >>

SortedOrder ==
    << ".git", ".tar.gz", "__pycache__", "app", "app.conf", "app.tar.gz", "bin",
       "config", "debug.log", "default", "default.meta", "local.meta",
       "metadata", "notes", "run.py", "sub", "w", "x.log", "x.pyc", "y.log" >>

Rank(order, n) == CHOOSE i \in 1..Len(order) : order[i] = n

(***************************************************************************)
(* Entries and file contents.  A text is a sequence of lines; a line is a  *)
(* record [t, k, v, d]: a section header, an option (key, value,           *)
(* delimiter), a comment, a blank line, or a line that is none of these.   *)
(***************************************************************************)
None == [kind |-> "none", mode |-> 0, data |-> <<>>, target |-> <<>>]
File(m, d) == [kind |-> "file", mode |-> m, data |-> d, target |-> <<>>]
Dir(m) == [kind |-> "dir", mode |-> m, data |-> <<>>, target |-> <<>>]
Link(t) == [kind |-> "link", mode |-> 511, data |-> <<>>, target |-> t]

Sec(n) == [t |-> "sec", k |-> n, v |-> "", d |-> ""]
Opt(k, v, d) == [t |-> "opt", k |-> k, v |-> v, d |-> d]
Comment == [t |-> "com", k |-> "", v |-> "", d |-> ""]
Blank == [t |-> "blank", k |-> "", v |-> "", d |-> ""]
Bare(k) == [t |-> "bare", k |-> k, v |-> "", d |-> ""]
Raw == <<[t |-> "raw", k |-> "", v |-> "", d |-> ""]>>

Get(f, p) == IF p \in U THEN f[p] ELSE None

(***************************************************************************)
(* Access checks of the kernel.  The process owns every entry, so only     *)
(* the owner bits count; uid 0 passes every check.                         *)
(***************************************************************************)
MayR(e) == env.isRoot \/ (e.mode \div 256) % 2 = 1
MayW(e) == env.isRoot \/ (e.mode \div 128) % 2 = 1
MayX(e) == env.isRoot \/ (e.mode \div 64) % 2 = 1

\* mode & ~umask, bit by bit.
RECURSIVE MaskBits(_, _, _)
MaskBits(m, u, i) ==
    IF i > 8 THEN 0
    ELSE (IF (m \div (2 ^ i)) % 2 = 1 /\ (u \div (2 ^ i)) % 2 = 0 THEN 2 ^ i ELSE 0)
         + MaskBits(m, u, i + 1)
Masked(m) == MaskBits(m, env.umask, 0)

\* The entry a path leads to when its last component is followed if it is a
\* symbolic link, and the path of that entry.
RealOf(e, p) == IF e.kind = "link" THEN e.target ELSE p
Real(f, p) == RealOf(Get(f, p), p)
Eff(f, p) == Get(f, Real(f, p))

\* The outcome of an operation: the filesystem it leaves and the errno it
\* raised ("" when it raised none).  Bind runs K on the filesystem r left
\* unless r raised; First is the first errno raised.
Ok(f) == [f |-> f, err |-> ""]
Fail(f, e) == [f |-> f, err |-> e]
Bind(r, K(_)) == IF r.err # "" THEN r ELSE K(r.f)
First(a, b) == IF a # "" THEN a ELSE b

\* Path resolution up to, not including, the last component.
SearchErr(e) ==
    IF e.kind = "none" THEN "ENOENT"
    ELSE IF e.kind # "dir" THEN "ENOTDIR"
    ELSE IF ~MayX(e) THEN "EACCES"
    ELSE ""
RECURSIVE AncErr(_, _, _)
AncErr(f, p, i) ==
    IF i >= Len(p) THEN ""
    ELSE First(SearchErr(Eff(f, SubSeq(p, 1, i))), AncErr(f, p, i + 1))

\* os.lstat and os.stat: "" or the errno.
LStat(f, p) ==
    First(AncErr(f, p, 1), IF Get(f, p).kind = "none" THEN "ENOENT" ELSE "")
Stat(f, p) ==
    First(LStat(f, p),
          IF Get(f, p).kind = "link" THEN LStat(f, Get(f, p).target) ELSE "")

\* pathlib's _ignore_error: ENOENT and ENOTDIR answer False, any other errno
\* is raised.
Ignored(e) == e \in {"ENOENT", "ENOTDIR"}
Answer(s, yes) ==
    IF s = "" THEN (IF yes THEN "yes" ELSE "no")
    ELSE IF Ignored(s) THEN "no" ELSE "raise"
Exists(f, p) == Answer(Stat(f, p), TRUE)
IsFile(f, p) == Answer(Stat(f, p), Eff(f, p).kind = "file")
IsDir(f, p) == Answer(Stat(f, p), Eff(f, p).kind = "dir")

\* The entries of directory p, as a sequence in the given order of names.
RECURSIVE Ordered(_, _)
Ordered(C, order) ==
    IF C = {} THEN <<>>
    ELSE LET m == CHOOSE u \in C :
                    \A v \in C : Rank(order, Name(u)) <= Rank(order, Name(v))
         IN  <<m>> \o Ordered(C \ {m}, order)
RECURSIVE Reverse(_)
Reverse(s) == IF s = <<>> THEN <<>> ELSE Append(Reverse(Tail(s)), Head(s))
\* every path of the universe directly under p, in each of the two orders
KidsScan == [p \in U |-> Ordered({u \in U : Len(u) = Len(p) + 1 /\ Parent(u) = p}, ScanOrder)]
KidsScanRev == [p \in U |-> Reverse(KidsScan[p])]
KidsSorted == [p \in U |-> Ordered({u \in U : Len(u) = Len(p) + 1 /\ Parent(u) = p}, SortedOrder)]
Present(f, ps) == SelectSeq(ps, LAMBDA u : f[u].kind # "none")
Children(f, p) == Present(f, IF env.rev THEN KidsScanRev[p] ELSE KidsScan[p])
Listdir(f, p) == Present(f, KidsSorted[p])

\* os.scandir(p) / os.listdir(p): "" or the errno.
ListErr(e) ==
    IF e.kind # "dir" THEN "ENOTDIR" ELSE IF ~MayR(e) THEN "EACCES" ELSE ""
ScanErr(f, p) == First(Stat(f, p), ListErr(Eff(f, p)))

Del(f, p) == [f EXCEPT ![p] = None]

\* os.unlink(p)
UnlinkErr(f, p) ==
    First(LStat(f, p),
          IF f[p].kind = "dir" THEN "EISDIR"
          ELSE IF ~MayW(Eff(f, Parent(p))) THEN "EACCES"
          ELSE "")
Unlinked(f, p, e) == IF e # "" THEN Fail(f, e) ELSE Ok(Del(f, p))
Unlink(f, p) == Unlinked(f, p, UnlinkErr(f, p))

\* shutil.rmtree(p) with the default onerror, which raises at the first
\* failure and leaves what was deleted before it deleted.
RECURSIVE RmInside(_, _)
RECURSIVE RmEntries(_, _, _)
RECURSIVE RmEntry(_, _, _)
RmInside(f, p) ==
    IF ~MayR(f[p]) THEN Fail(f, "EACCES") ELSE RmEntries(f, p, Children(f, p))
RmEntries(f, p, cs) ==
    IF cs = <<>> THEN Ok(f)
    ELSE IF ~MayX(f[p]) THEN Fail(f, "EACCES")
    ELSE IF f[Head(cs)].kind = "dir"
    THEN Bind(RmInside(f, Head(cs)), LAMBDA g : RmEntry(g, p, cs))
    ELSE RmEntry(f, p, cs)
RmEntry(f, p, cs) ==
    IF ~MayW(f[p]) THEN Fail(f, "EACCES")
    ELSE RmEntries(Del(f, Head(cs)), p, Tail(cs))
RmTreeErr(f, p) ==
    First(LStat(f, p),
          IF f[p].kind = "link" THEN "symlink"
          ELSE IF f[p].kind # "dir" THEN "ENOTDIR"
          ELSE "")
RmTop(f, p) ==
    IF ~MayW(Eff(f, Parent(p))) THEN Fail(f, "EACCES") ELSE Ok(Del(f, p))
RmTreeFrom(f, p, e) ==
    IF e # "" THEN Fail(f, e)
    ELSE Bind(RmInside(f, p), LAMBDA g : RmTop(g, p))
RmTree(f, p) == RmTreeFrom(f, p, RmTreeErr(f, p))

\* os.chmod(p, m): follows a symbolic link; the owner may always change it.
ChmodAs(f, p, m, e) ==
    IF e # "" THEN Fail(f, e) ELSE Ok([f EXCEPT ![Real(f, p)].mode = m])
Chmod(f, p, m) == ChmodAs(f, p, m, Stat(f, p))

\* open(p, 'w') followed by a write of data: creates the file with mode
\* 0o666 & ~umask, or truncates the existing one.  q is the file the path
\* leads to, a the errno of the resolution of p.
Written(f, q, data, a) ==
    IF a # "" THEN Fail(f, a)
    ELSE IF q \notin U THEN Fail(f, "ENOENT")
    ELSE IF f[q].kind = "dir" THEN Fail(f, "EISDIR")
    ELSE IF f[q].kind = "file"
    THEN IF MayW(f[q]) THEN Ok([f EXCEPT ![q].data = data]) ELSE Fail(f, "EACCES")
    ELSE IF ~MayW(Eff(f, Parent(q))) THEN Fail(f, "EACCES")
    ELSE Ok([f EXCEPT ![q] = File(Masked(438), data)])
WriteFile(f, p, data) == Written(f, Real(f, p), data, AncErr(f, p, 1))

\* Path.mkdir(parents=True, exist_ok=True)
Mkdir(f, p) ==
    IF ~MayW(Eff(f, Parent(p))) THEN Fail(f, "EACCES")
    ELSE Ok([f EXCEPT ![p] = Dir(Masked(511))])
RECURSIVE MkdirP(_, _)
RECURSIVE MkdirFrom(_, _, _)
MkdirP(f, p) ==
    IF p \notin U THEN Fail(f, "ENOENT") ELSE MkdirFrom(f, p, AncErr(f, p, 1))
MkdirFrom(f, p, a) ==
    IF a = "ENOENT" THEN Bind(MkdirP(f, Parent(p)), LAMBDA g : Mkdir(g, p))
    ELSE IF a # "" THEN Fail(f, a)
    ELSE IF f[p].kind # "none"
    THEN IF IsDir(f, p) = "yes" THEN Ok(f) ELSE Fail(f, "EEXIST")
    ELSE Mkdir(f, p)

(***************************************************************************)
(* SplunkAppPrep.__init__: the permission policy.                          *)
(***************************************************************************)
dir_perms == 493
file_perms == 420
exec_perms == 493
exec_files == {<<".", "p", "y">>, <<".", "s", "h">>}

\* PurePath.suffix: from the last dot of the name, unless that dot is the
\* first or the last character.
LastDot(s) == IF \E i \in 1..Len(s) : s[i] = "."
              THEN CHOOSE i \in 1..Len(s) : s[i] = "." /\ \A j \in (i + 1)..Len(s) : s[j] # "."
              ELSE 0
Suffix(s) == IF 1 < LastDot(s) /\ LastDot(s) < Len(s) THEN SubSeq(s, LastDot(s), Len(s)) ELSE <<>>

\* fnmatch on the characters of a name; the patterns use no wildcard but *.
RECURSIVE Match(_, _)
Match(pat, s) ==
    IF pat = <<>> THEN s = <<>>
    ELSE IF Head(pat) = "*"
    THEN Match(Tail(pat), s) \/ (s # <<>> /\ Match(pat, Tail(s)))
    ELSE s # <<>> /\ Head(s) = Head(pat) /\ Match(Tail(pat), Tail(s))

patterns_to_remove ==
    << [name |-> "*.pyc", chars |-> <<"*", ".", "p", "y", "c">>],
       [name |-> "__pycache__", chars |-> Spell["__pycache__"]],
       [name |-> ".DS_Store", chars |-> <<".", "D", "S", "_", "S", "t", "o", "r", "e">>],
       [name |-> "*.swp", chars |-> <<"*", ".", "s", "w", "p">>],
       [name |-> "*~", chars |-> <<"*", "~">>],
       [name |-> ".git", chars |-> Spell[".git"]],
       [name |-> ".gitignore", chars |-> <<".", "g", "i", "t", "i", "g", "n", "o", "r", "e">>],
       [name |-> "*.tmp", chars |-> <<"*", ".", "t", "m", "p">>],
       [name |-> "*.log", chars |-> <<"*", ".", "l", "o", "g">>] >>

\* pathlib._is_wildcard_pattern
IsWildcard(pat) == \E i \in 1..Len(pat.chars) : pat.chars[i] \in {"*", "?", "["}

(***************************************************************************)
(* clean_app.  RemoveMatch is the body of the loop over one rglob match;   *)
(* SelectIn and IterDirs are rglob's generators (_WildcardSelector or      *)
(* _PreciseSelector under _RecursiveWildcardSelector), run interleaved     *)
(* with the deletions the loop makes between two matches.                  *)
(***************************************************************************)
\* isf and isd are the answers of path.is_file() and path.is_dir()
RemoveAs(f, path, isf, isd) ==
    IF isf = "raise" THEN Fail(f, "EACCES")
    ELSE IF isf = "yes" THEN Unlink(f, path)
    ELSE IF isd = "raise" THEN Fail(f, "EACCES")
    ELSE IF isd = "yes" THEN RmTree(f, path)
    ELSE Ok(f)
RemoveMatch(f, path) == RemoveAs(f, path, IsFile(f, path), IsDir(f, path))

RECURSIVE RemoveEach(_, _, _)
RemoveEach(f, entries, pat) ==
    IF entries = <<>> THEN Ok(f)
    ELSE IF Match(pat.chars, Spell[Name(Head(entries))])
    THEN Bind(RemoveMatch(f, Head(entries)), LAMBDA g : RemoveEach(g, Tail(entries), pat))
    ELSE RemoveEach(f, Tail(entries), pat)

\* e is the errno of the scandir of P
SelectScanned(f, P, pat, e) ==
    IF e = "EACCES" THEN Ok(f)
    ELSE IF e # "" THEN Fail(f, e)
    ELSE RemoveEach(f, Children(f, P), pat)
SelectIn(f, P, pat) ==
    IF IsWildcard(pat) THEN SelectScanned(f, P, pat, ScanErr(f, P))
    ELSE IF Exists(f, Append(P, pat.name)) = "yes"
    THEN RemoveMatch(f, Append(P, pat.name))
    ELSE Ok(f)

RECURSIVE IterDirs(_, _, _)
RECURSIVE IterScanned(_, _, _, _)
RECURSIVE IterEach(_, _, _)
RECURSIVE IterEntry(_, _, _, _)
IterDirs(f, P, pat) ==
    Bind(SelectIn(f, P, pat), LAMBDA g : IterScanned(g, P, pat, ScanErr(g, P)))
IterScanned(f, P, pat, e) ==
    IF e = "EACCES" THEN Ok(f)
    ELSE IF e # "" THEN Fail(f, e)
    ELSE IterEach(f, Children(f, P), pat)
IterEach(f, entries, pat) ==
    IF entries = <<>> THEN Ok(f) ELSE IterEntry(f, Head(entries), Tail(entries), pat)
IterEntry(f, c, rest, pat) ==
    IF f[c].kind = "link" /\ IsDir(f, c) = "raise" THEN Ok(f)
    ELSE IF f[c].kind = "dir"
    THEN Bind(IterDirs(f, c, pat), LAMBDA g : IterEach(g, rest, pat))
    ELSE IterEach(f, rest, pat)

\* self.app_path.rglob(pattern) with the loop body applied to every match;
\* d is the answer of is_dir() on the root
RglobAs(f, root, pat, d) ==
    IF d = "raise" THEN Fail(f, "EACCES")
    ELSE IF d = "no" THEN Ok(f)
    ELSE IterDirs(f, root, pat)
rglob_remove(f, root, pat) == RglobAs(f, root, pat, IsDir(f, root))

RECURSIVE clean_from(_, _, _)
clean_from(f, root, i) ==
    IF i > Len(patterns_to_remove) THEN Ok(f)
    ELSE Bind(rglob_remove(f, root, patterns_to_remove[i]),
              LAMBDA g : clean_from(g, root, i + 1))

clean_app(f, root) == clean_from(f, root, 1)

(***************************************************************************)
(* set_permissions.  The result carries the events of the walk: a chmod    *)
(* of a path, a scandir of a directory.                                    *)
(***************************************************************************)
OkL(f, l) == [f |-> f, err |-> "", log |-> l]
FailL(f, e, l) == [f |-> f, err |-> e, log |-> l]
BindL(r, K(_, _)) == IF r.err # "" THEN r ELSE K(r.f, r.log)
Ev(op, p) == [op |-> op, path |-> p]

policy_mode(f, p) ==
    IF Suffix(Spell[Name(p)]) \in exec_files THEN exec_perms ELSE file_perms

\* r is the outcome of the chmod of the first path of ps
RECURSIVE ChmodEach(_, _, _, _)
RECURSIVE ChmodNext(_, _, _, _, _)
ChmodEach(f, ps, asDir, l) ==
    IF ps = <<>> THEN OkL(f, l)
    ELSE ChmodNext(f, ps, asDir, l,
                   Chmod(f, Head(ps), IF asDir THEN dir_perms ELSE policy_mode(f, Head(ps))))
ChmodNext(f, ps, asDir, l, r) ==
    IF r.err # "" THEN FailL(f, r.err, l)
    ELSE ChmodEach(r.f, Tail(ps), asDir, Append(l, Ev("chmod", Head(ps))))

\* os.walk's split of a directory's entries: entry.is_dir() follows links
\* and answers False on any error.
WalkIsDir(f, p) == Stat(f, p) = "" /\ Eff(f, p).kind = "dir"

RECURSIVE WalkDir(_, _, _)
RECURSIVE WalkEntries(_, _, _, _)
RECURSIVE WalkInto(_, _, _)
\* WalkDir without the loop over dirs (lines 95-98)
WalkDirFilesOnly(f, top, l) ==
    IF ScanErr(f, top) # "" THEN OkL(f, l)
    ELSE BindL(ChmodEach(f, SelectSeq(Children(f, top), LAMBDA p : ~WalkIsDir(f, p)),
                         FALSE, Append(l, Ev("scan", top))),
               LAMBDA g, l1 :
                   WalkInto(g, SelectSeq(Children(f, top), LAMBDA p : WalkIsDir(f, p)), l1))
WalkDir(f, top, l) ==
    IF ScanErr(f, top) # "" THEN OkL(f, l)
    ELSE WalkEntries(f, SelectSeq(Children(f, top), LAMBDA p : WalkIsDir(f, p)),
                     SelectSeq(Children(f, top), LAMBDA p : ~WalkIsDir(f, p)),
                     Append(l, Ev("scan", top)))
\* the body of the loop over os.walk: the dirs of one directory, then its
\* files; os.walk then descends into the dirs
WalkEntries(f, dirs, files, l) ==
    BindL(ChmodEach(f, dirs, TRUE, l),
          LAMBDA g, l1 :
              BindL(ChmodEach(g, files, FALSE, l1),
                    LAMBDA h, l2 : WalkInto(h, dirs, l2)))
WalkInto(f, dirs, l) ==
    IF dirs = <<>> THEN OkL(f, l)
    ELSE IF f[Head(dirs)].kind = "link" THEN WalkInto(f, Tail(dirs), l)
    ELSE BindL(WalkDir(f, Head(dirs), l), LAMBDA g, l1 : WalkInto(g, Tail(dirs), l1))

\* r is the outcome of the chmod of the root
WalkFrom(f, root, r) ==
    IF r.err # "" THEN FailL(f, r.err, <<>>)
    ELSE WalkDir(r.f, root, <<Ev("chmod", root)>>)
set_permissions(f, root) == WalkFrom(f, root, Chmod(f, root, dir_perms))

(***************************************************************************)
(* configparser.ConfigParser() with its defaults: strict, no interpolation *)
(* on read or write, optionxform = str.lower, delimiters = and :.          *)
(***************************************************************************)
KEY == "install_source_checksum"

\* str.lower on the option names of the model
Lower(k) ==
    CASE k = "Install_Source_Checksum" -> KEY
      [] k = "State" -> "state"
      [] OTHER -> k

EmptyConfig == [err |-> "", secs |-> <<>>, defaults |-> <<>>, cur |-> ""]
HasSec(c, n) == \E i \in 1..Len(c.secs) : c.secs[i].name = n
HasOpt(opts, k) == \E i \in 1..Len(opts) : opts[i].k = k
SecIndex(c, n) == CHOOSE i \in 1..Len(c.secs) : c.secs[i].name = n

\* RawConfigParser._read, one line at a time.  cur is the current section
\* ("" before the first header); err "parsing" is the ParsingError that
\* _read collects and raises at the end, every other error is raised at once.
ReadLine(c, ln) ==
    IF ln.t \in {"com", "blank"} THEN c
    ELSE IF ln.t = "sec"
    THEN IF HasSec(c, ln.k) THEN [c EXCEPT !.err = "DuplicateSectionError"]
         ELSE IF ln.k = "DEFAULT" THEN [c EXCEPT !.cur = "DEFAULT"]
         ELSE [c EXCEPT !.secs = Append(@, [name |-> ln.k, opts |-> <<>>]), !.cur = ln.k]
    ELSE IF c.cur = "" THEN [c EXCEPT !.err = "MissingSectionHeaderError"]
    ELSE IF ln.t = "opt"
    THEN LET o == [k |-> Lower(ln.k), v |-> ln.v]
         IN  IF c.cur = "DEFAULT"
             THEN IF HasOpt(c.defaults, o.k) THEN [c EXCEPT !.err = "DuplicateOptionError"]
                  ELSE [c EXCEPT !.defaults = Append(@, o)]
             ELSE IF HasOpt(c.secs[SecIndex(c, c.cur)].opts, o.k)
                  THEN [c EXCEPT !.err = "DuplicateOptionError"]
                  ELSE [c EXCEPT !.secs[SecIndex(c, c.cur)].opts = Append(@, o)]
    ELSE [c EXCEPT !.err = "parsing"]

RECURSIVE ReadLines(_, _)
ReadLines(c, lines) ==
    IF lines = <<>> \/ c.err \notin {"", "parsing"} THEN c
    ELSE ReadLines(ReadLine(c, Head(lines)), Tail(lines))

\* config.read(path): an OSError from open() is swallowed and leaves the
\* parser empty.
config_read(f, p) ==
    IF Eff(f, p).kind # "file" \/ ~MayR(Eff(f, p)) THEN EmptyConfig
    ELSE ReadLines(EmptyConfig, Eff(f, p).data)

\* 'install' in config and 'install_source_checksum' in config['install']
has_checksum(c) ==
    /\ HasSec(c, "install")
    /\ \/ HasOpt(c.secs[SecIndex(c, "install")].opts, KEY)
       \/ HasOpt(c.defaults, KEY)

RemoveOpt(opts, k) == SelectSeq(opts, LAMBDA o : o.k # k)

\* del config['install']['install_source_checksum']: KeyError when the
\* section itself does not hold the option (it came from DEFAULT).
del_checksum(c) ==
    IF HasOpt(c.secs[SecIndex(c, "install")].opts, KEY)
    THEN [c EXCEPT !.secs[SecIndex(c, "install")].opts = RemoveOpt(@, KEY)]
    ELSE [c EXCEPT !.err = "KeyError"]

\* config.write(f)
RECURSIVE WriteOpts(_)
WriteOpts(opts) ==
    IF opts = <<>> THEN <<>> ELSE <<Opt(Head(opts).k, Head(opts).v, "=")>> \o WriteOpts(Tail(opts))
WriteSection(n, opts) == <<Sec(n)>> \o WriteOpts(opts) \o <<Blank>>
RECURSIVE WriteSections(_)
WriteSections(secs) ==
    IF secs = <<>> THEN <<>>
    ELSE WriteSection(Head(secs).name, Head(secs).opts) \o WriteSections(Tail(secs))
config_write(c) ==
    (IF c.defaults # <<>> THEN WriteSection("DEFAULT", c.defaults) ELSE <<>>)
    \o WriteSections(c.secs)

\* lines 44-46: the test and the del
remove_checksum(c) == IF c.err = "" /\ has_checksum(c) THEN del_checksum(c) ELSE c

\* lines 48-53: write the document back, set the mode
write_back(f, p, c) ==
    IF c.err # "" THEN Fail(f, c.err)
    ELSE Bind(WriteFile(f, p, config_write(c)), LAMBDA g : Chmod(g, p, file_perms))

\* ex is the answer of app_conf_path.exists()
FixConfAs(f, p, ex) ==
    IF ex = "raise" THEN Fail(f, "EACCES")
    ELSE IF ex = "no" THEN Ok(f)
    ELSE write_back(f, p, remove_checksum(config_read(f, p)))
FixConfAt(f, p) == FixConfAs(f, p, Exists(f, p))
fix_app_conf(f, root) == FixConfAt(f, root \o <<"default", "app.conf">>)

(***************************************************************************)
(* fix_meta_files                                                          *)
(***************************************************************************)
default_meta_content ==
    << [t |-> "raw", k |-> "[]", v |-> "", d |-> ""],
       Opt("access", "read : [ * ], write : [ admin ]", "="),
       Opt("export", "system", "=") >>

\* lines 67-80: action (b), the directory, the file, its mode
write_default_meta(f, default_meta) ==
    Bind(MkdirP(f, Parent(default_meta)),
         LAMBDA g :
             Bind(WriteFile(g, default_meta, default_meta_content),
                  LAMBDA h : Chmod(h, default_meta, file_perms)))

\* ex is the answer of local_meta.exists()
FixMetaAs(f, local_meta, default_meta, ex) ==
    IF ex = "raise" THEN Fail(f, "EACCES")
    ELSE Bind(IF ex = "yes" THEN Unlink(f, local_meta) ELSE Ok(f),
              LAMBDA g : write_default_meta(g, default_meta))
fix_meta_files(f, root) ==
    FixMetaAs(f, root \o <<"metadata", "local.meta">>,
              root \o <<"metadata", "default.meta">>,
              Exists(f, root \o <<"metadata", "local.meta">>))

(***************************************************************************)
(* verify_structure: three existence checks outside any try block.         *)
(***************************************************************************)
verify_structure(f, root) ==
    IF \/ Exists(f, root \o <<"default", "app.conf">>) = "raise"
       \/ Exists(f, root \o <<"bin">>) = "raise"
       \/ Exists(f, root \o <<"default">>) = "raise"
    THEN "raise" ELSE "ok"

(***************************************************************************)
(* create_package.  A path is [abs, parts]; Path(".") has no parts.        *)
(***************************************************************************)
PathParent(path) ==
    IF path.parts = <<>> THEN path ELSE [path EXCEPT !.parts = Parent(path.parts)]
PathName(path) == IF path.parts = <<>> THEN "" ELSE Name(path.parts)
Resolve(c, path) == IF path.abs THEN path.parts ELSE c \o path.parts

Member(arc, e) == [name |-> arc, kind |-> e.kind, mode |-> e.mode, data |-> e.data, target |-> e.target]
OkM(ms) == [members |-> ms, err |-> ""]
FailM(ms, e) == [members |-> ms, err |-> e]
BindM(r, K(_)) == IF r.err # "" THEN r ELSE K(r.members)

\* TarFile.add(name, recursive=True): lstat, then by the entry's type
RECURSIVE TarAdd(_, _, _, _)
RECURSIVE TarEntry(_, _, _, _, _)
RECURSIVE TarAddEach(_, _, _, _)
TarAdd(f, p, arc, ms) ==
    IF LStat(f, p) # "" THEN FailM(ms, LStat(f, p)) ELSE TarEntry(f, p, arc, ms, Get(f, p))
TarEntry(f, p, arc, ms, e) ==
    IF e.kind = "file"
    THEN IF MayR(e) THEN OkM(Append(ms, Member(arc, e))) ELSE FailM(ms, "EACCES")
    ELSE IF e.kind = "link" THEN OkM(Append(ms, Member(arc, e)))
    ELSE IF ~MayR(e) THEN FailM(Append(ms, Member(arc, e)), "EACCES")
    ELSE TarAddEach(f, Listdir(f, p), arc, Append(ms, Member(arc, e)))
TarAddEach(f, cs, arc, ms) ==
    IF cs = <<>> THEN OkM(ms)
    ELSE BindM(TarAdd(f, Head(cs), Append(arc, Name(Head(cs))), ms),
               LAMBDA ms1 : TarAddEach(f, Tail(cs), arc, ms1))

\* os.chdir(d): "" or the errno
ChdirErr(f, d) == First(Stat(f, d), SearchErr(Eff(f, d)))

Package(f, e, c, tar, ms, added) ==
    [f |-> f, err |-> e, cwd |-> c, tar |-> tar, members |-> ms, added |-> added]
\* line 167, in working directory d: a is what tar.add(app_name) stored
Added(f, d, app_name, tar_path, a) ==
    Package(f, a.err, d, tar_path, a.members,
            IF app_name = "" THEN <<>> ELSE Append(d, app_name))
\* lines 165-167: cd is the errno of os.chdir(parent_dir), d the directory
Entered(f, c, d, app_name, tar_path, cd) ==
    IF cd # "" THEN Package(f, cd, c, tar_path, <<>>, <<>>)
    ELSE Added(f, d, app_name, tar_path,
               IF app_name = "" THEN FailM(<<>>, "ENOENT")
               ELSE TarAdd(f, Append(d, app_name), <<app_name>>, <<>>))
\* line 163: o is the outcome of opening tar_path for writing
Opened(f, c, d, app_name, tar_path, o) ==
    IF o.err # "" THEN Package(f, o.err, c, <<>>, <<>>, <<>>)
    ELSE Entered(o.f, c, d, app_name, tar_path, ChdirErr(o.f, d))
\* lines 157-161: d is parent_dir as the process resolves it
PackageIn(f, c, d, app_name, tar_path) ==
    Opened(f, c, d, app_name, tar_path, WriteFile(f, tar_path, Raw))

\* create_package with os.chdir(parent_dir) moved before tarfile.open(tar_path),
\* so that tar_path is resolved from the new working directory
create_package_chdir_first(f, c, app_path) ==
    IF ChdirErr(f, Resolve(c, PathParent(app_path))) # ""
    THEN Package(f, ChdirErr(f, Resolve(c, PathParent(app_path))), c, <<>>, <<>>, <<>>)
    ELSE PackageIn(f, Resolve(c, PathParent(app_path)),
                   Resolve(c, PathParent(app_path)), PathName(app_path),
                   Resolve(Resolve(c, PathParent(app_path)), PathParent(app_path))
                       \o <<PathName(app_path) \o ".tar.gz">>)
create_package(f, c, app_path) ==
    PackageIn(f, c, Resolve(c, PathParent(app_path)), PathName(app_path),
              Resolve(c, PathParent(app_path)) \o <<PathName(app_path) \o ".tar.gz">>)

(***************************************************************************)
(* The filesystems and environments the model starts from.  A scenario     *)
(* is a record of choices; Tree builds the filesystem it describes.        *)
(***************************************************************************)
PlainDoc == <<Sec("install"), Opt(KEY, "abc123", "="), Opt("state", "enabled", "=")>>

Tree(o) ==
    LET at(rel) == R \o rel
        under(ok, e) == IF ok THEN e ELSE None
        hasDefault == o.default = "dir"
        hasBin == o.bin = "dir"
        hasMeta == o.metadata = "dir"
    IN  [p \in U |->
           CASE p \in {W, S} -> Dir(493)
             [] p = R -> Dir(o.rootMode)
             [] p = at(<<"default">>) -> under(hasDefault, Dir(o.defaultMode))
             [] p = at(<<"default", "app.conf">>) ->
                    under(hasDefault /\ o.conf = "file", File(o.confMode, o.doc))
             [] p = at(<<"bin">>) -> under(hasBin, Dir(o.binMode))
             [] p = at(<<"bin", "run.py">>) ->
                    under(hasBin,
                          IF o.run = "link" THEN Link(at(<<"notes">>))
                          ELSE File(o.runMode, Raw))
             [] p = at(<<"bin", "x.log">>) ->
                    under(hasBin,
                          CASE o.xlog = "file" -> File(420, Raw)
                            [] o.xlog = "dir" -> Dir(493)
                            [] o.xlog = "linkdir" -> Link(at(<<"default">>))
                            [] o.xlog = "linkfile" -> Link(at(<<"notes">>))
                            [] o.xlog = "dangling" -> Link(<<>>)
                            [] OTHER -> None)
             [] p = at(<<"bin", "x.log", "y.log">>) ->
                    under(hasBin /\ o.xlog = "dir", File(420, Raw))
             [] p = at(<<"metadata">>) ->
                    CASE o.metadata = "dir" -> Dir(o.metaMode)
                      [] o.metadata = "file" -> File(420, Raw)
                      [] OTHER -> None
             [] p = at(<<"metadata", "local.meta">>) ->
                    under(hasMeta,
                          CASE o.local = "file" -> File(420, Raw)
                            [] o.local = "dir" -> Dir(493)
                            [] OTHER -> None)
             [] p = at(<<"metadata", "default.meta">>) ->
                    under(hasMeta,
                          CASE o.defmeta = "old" -> File(o.defmetaMode, Raw)
                            [] o.defmeta = "canon" -> File(o.defmetaMode, default_meta_content)
                            [] o.defmeta = "dir" -> Dir(493)
                            [] OTHER -> None)
             [] p = at(<<"__pycache__">>) -> under(o.pycache # "absent", Dir(493))
             [] p = at(<<"__pycache__", "x.pyc">>) -> under(o.pycache # "absent", File(420, Raw))
             [] p = at(<<"__pycache__", "debug.log">>) -> under(o.pycache = "pyc+log", File(420, Raw))
             [] p = at(<<".git">>) ->
                    CASE o.git = "dir" -> Dir(493)
                      [] o.git = "linkdir" -> Link(at(<<"bin">>))
                      [] o.git = "dangling" -> Link(<<>>)
                      [] OTHER -> None
             [] p = at(<<".git", "config">>) -> under(o.git = "dir", File(420, Raw))
             [] p = at(<<"notes">>) -> under(o.notes = "file", File(o.notesMode, Raw))
             [] OTHER -> None]

BaseTree ==
    [ rootMode |-> 493, default |-> "dir", defaultMode |-> 493, conf |-> "file",
      confMode |-> 420, doc |-> PlainDoc, bin |-> "dir", binMode |-> 493,
      run |-> "file", runMode |-> 420, xlog |-> "absent", metadata |-> "absent", metaMode |-> 493,
      local |-> "absent", defmeta |-> "absent", defmetaMode |-> 420,
      pycache |-> "absent", git |-> "absent", notes |-> "file", notesMode |-> 384 ]

\* main(): the path is sys.argv[1] as given, or os.getcwd()
AbsRoot == [abs |-> TRUE, parts |-> R]
RelRoot == [abs |-> FALSE, parts |-> <<"sub", "app">>]
NameRoot == [abs |-> FALSE, parts |-> <<"app">>]
DotRoot == [abs |-> FALSE, parts |-> <<>>]

BaseEnv ==
    [ app_path |-> AbsRoot, cwd0 |-> W, isRoot |-> FALSE, umask |-> 18, rev |-> FALSE ]

LinePool ==
    { Sec("install"), Sec("ui"), Sec("DEFAULT"), Opt(KEY, "abc123", "="),
      Opt("State", "enabled", ":"), Opt("state", "on", "="), Bare("flag"), Comment }
Docs == UNION { [1..k -> LinePool] : k \in 0..MaxLines }

DirModes == {493, 365, 256, 0}
FileModes == {420, 256, 128, 0}

\* entry modes against both uids
FamModes ==
    { [ env |-> [BaseEnv EXCEPT !.isRoot = r],
        o |-> [BaseTree EXCEPT !.rootMode = a, !.defaultMode = b, !.binMode = c,
                               !.confMode = d, !.pycache = "pyc", !.xlog = "file"] ] :
      r \in BOOLEAN, a \in {493, 365, 0},
      b \in DirModes, c \in DirModes, d \in FileModes }

\* the kinds of the entries that match an artifact pattern
FamClean ==
    { [ env |-> [BaseEnv EXCEPT !.isRoot = r, !.rev = v],
        o |-> [BaseTree EXCEPT !.xlog = x, !.git = g, !.pycache = c, !.binMode = b] ] :
      r \in BOOLEAN, v \in BOOLEAN, b \in {493, 365},
      x \in {"absent", "file", "dir", "linkdir", "linkfile", "dangling"},
      g \in {"absent", "dir", "linkdir", "dangling"},
      c \in {"absent", "pyc", "pyc+log"} }

\* the states of the metadata directory
FamMeta ==
    { [ env |-> [BaseEnv EXCEPT !.isRoot = r],
        o |-> [BaseTree EXCEPT !.metadata = m[1], !.metaMode = m[2], !.local = l,
                               !.defmeta = d[1], !.defmetaMode = d[2]] ] :
      r \in BOOLEAN,
      m \in {<<"absent", 493>>, <<"file", 493>>, <<"dir", 493>>, <<"dir", 365>>, <<"dir", 0>>},
      l \in {"absent", "file", "dir"},
      d \in {<<"absent", 420>>, <<"old", 420>>, <<"old", 292>>, <<"canon", 384>>, <<"dir", 493>>} }

\* the contents of default/app.conf
FamDocs ==
    { [ env |-> BaseEnv, o |-> [BaseTree EXCEPT !.doc = d] ] : d \in Docs }

\* the forms of the root path, with the umask
FamPaths ==
    { [ env |-> [BaseEnv EXCEPT !.app_path = a[1], !.cwd0 = a[2], !.umask = u, !.isRoot = r],
        o |-> [BaseTree EXCEPT !.pycache = t[1], !.xlog = t[2], !.notesMode = t[3]] ] :
      a \in {<<AbsRoot, W>>, <<RelRoot, W>>, <<NameRoot, S>>, <<DotRoot, R>>},
      u \in {18, 63}, r \in BOOLEAN,
      t \in {<<"absent", "absent", 384>>, <<"pyc", "file", 384>>, <<"absent", "dangling", 0>>} }

\* symbolic links among entries of restrictive modes
FamLinks ==
    { [ env |-> [BaseEnv EXCEPT !.isRoot = r, !.rev = v],
        o |-> [BaseTree EXCEPT !.xlog = x, !.notesMode = n, !.run = m[1], !.runMode = m[2],
                               !.binMode = b] ] :
      r \in BOOLEAN, v \in BOOLEAN, b \in {493, 0}, n \in {420, 384, 0},
      m \in {<<"file", 420>>, <<"file", 0>>, <<"link", 420>>},
      x \in {"absent", "file", "dir", "linkdir", "linkfile", "dangling"} }


(***************************************************************************)
(* prepare_app: one action per step, in the order of its calls.            *)
(***************************************************************************)
AllSteps == <<"verify", "clean", "conf", "meta", "perms", "archive">>
NoUse == [s \in {"verify", "clean", "conf", "meta", "perms", "archive", "tar"} |-> <<>>]
Root(c) == Resolve(c, env.app_path)
Logged(step, err) == IF err # "" THEN errors \cup {step} ELSE errors

InitFrom(scenarios) ==
    \E sc \in scenarios :
        /\ env = sc.env
        /\ fs = Tree(sc.o)
        /\ fs0 = Tree(sc.o)
        /\ before = Tree(sc.o)
        /\ cwd = sc.env.cwd0
        /\ start = sc.env.cwd0
        /\ tars = [t \in TarNodes |-> <<>>]
        /\ pc = "verify"
        /\ run = 1
        /\ steps = <<>>
        /\ errors = {}
        /\ walk = <<>>
        /\ used = NoUse

Init ==
    \/ InitFrom(FamModes)
    \/ InitFrom(FamClean)
    \/ InitFrom(FamMeta)
    \/ InitFrom(FamDocs)
    \/ InitFrom(FamPaths)
    \/ InitFrom(FamLinks)

Verify ==
    /\ pc = "verify"
    /\ pc' = IF verify_structure(fs, Root(cwd)) = "raise" THEN "raised" ELSE "clean"
    /\ steps' = Append(steps, "verify")
    /\ used' = [used EXCEPT !.verify = Root(cwd)]
    /\ UNCHANGED <<fs, tars, cwd, run, errors, walk, env, fs0, before, start>>

Clean ==
    /\ pc = "clean"
    /\ LET r == clean_app(fs, Root(cwd))
       IN  fs' = r.f /\ errors' = Logged("clean", r.err)
    /\ pc' = "conf"
    /\ steps' = Append(steps, "clean")
    /\ used' = [used EXCEPT !.clean = Root(cwd)]
    /\ UNCHANGED <<tars, cwd, run, walk, env, fs0, before, start>>

FixAppConf ==
    /\ pc = "conf"
    /\ LET r == fix_app_conf(fs, Root(cwd))
       IN  fs' = r.f /\ errors' = Logged("conf", r.err)
    /\ pc' = "meta"
    /\ steps' = Append(steps, "conf")
    /\ used' = [used EXCEPT !.conf = Root(cwd)]
    /\ UNCHANGED <<tars, cwd, run, walk, env, fs0, before, start>>

FixMetaFiles ==
    /\ pc = "meta"
    /\ LET r == fix_meta_files(fs, Root(cwd))
       IN  fs' = r.f /\ errors' = Logged("meta", r.err)
    /\ pc' = "perms"
    /\ steps' = Append(steps, "meta")
    /\ used' = [used EXCEPT !.meta = Root(cwd)]
    /\ UNCHANGED <<tars, cwd, run, walk, env, fs0, before, start>>

SetPermissions ==
    /\ pc = "perms"
    /\ LET r == set_permissions(fs, Root(cwd))
       IN  fs' = r.f /\ errors' = Logged("perms", r.err) /\ walk' = r.log
    /\ pc' = "archive"
    /\ steps' = Append(steps, "perms")
    /\ used' = [used EXCEPT !.perms = Root(cwd)]
    /\ UNCHANGED <<tars, cwd, run, env, fs0, before, start>>

CreatePackage ==
    /\ pc = "archive"
    /\ LET r == create_package(fs, cwd, env.app_path)
       IN  /\ fs' = r.f
           /\ cwd' = r.cwd
           /\ errors' = Logged("archive", r.err)
           /\ tars' = IF r.tar \in TarNodes THEN [tars EXCEPT ![r.tar] = r.members] ELSE tars
           /\ used' = [used EXCEPT !.archive = r.added, !.tar = r.tar]
    /\ pc' = "completed"
    /\ steps' = Append(steps, "archive")
    /\ UNCHANGED <<run, walk, env, fs0, before, start>>

\* prepare_app() is called once more in the same process
RunAgain ==
    /\ pc = "completed"
    /\ run < MaxRuns
    /\ Root(cwd) \in U
    /\ run' = run + 1
    /\ pc' = "verify"
    /\ steps' = <<>>
    /\ errors' = {}
    /\ walk' = <<>>
    /\ used' = NoUse
    /\ before' = fs
    /\ start' = cwd
    /\ UNCHANGED <<fs, tars, cwd, env, fs0>>

\* the script is started once more from the directory of the first start
Reinvoke ==
    /\ pc = "completed"
    /\ run < MaxRuns
    /\ run' = run + 1
    /\ cwd' = env.cwd0
    /\ pc' = "verify"
    /\ steps' = <<>>
    /\ errors' = {}
    /\ walk' = <<>>
    /\ used' = NoUse
    /\ before' = fs
    /\ start' = env.cwd0
    /\ UNCHANGED <<fs, tars, env, fs0>>

Next ==
    \/ Verify
    \/ Clean
    \/ FixAppConf
    \/ FixMetaFiles
    \/ SetPermissions
    \/ CreatePackage
    \/ RunAgain
    \/ Reinvoke

Spec == Init /\ [][Next]_vars

\* the same program started from the scenarios that vary the tree and the
\* environment, with the one plain default/app.conf
InitTrees ==
    \/ InitFrom(FamModes)
    \/ InitFrom(FamClean)
    \/ InitFrom(FamMeta)
    \/ InitFrom(FamPaths)
    \/ InitFrom(FamLinks)

SpecTrees == InitTrees /\ [][Next]_vars

TypeOK ==
    /\ pc \in {"verify", "clean", "conf", "meta", "perms", "archive", "completed", "raised"}
    /\ run \in 1..MaxRuns
    /\ cwd \in U

(***************************************************************************)
(* What the claims speak about.                                            *)
(***************************************************************************)
\* the directory the current call resolved its root path to when it started
RootAt == Resolve(start, env.app_path)
IsUnder(p, root) == Len(p) > Len(root) /\ SubSeq(p, 1, Len(root)) = root
InTree(p, root) == p = root \/ IsUnder(p, root)
IsPrefix(s, t) == Len(s) <= Len(t) /\ SubSeq(t, 1, Len(s)) = s
\* the artifact patterns, by index, that the name of p matches
PatternsOf(p) ==
    {i \in 1..Len(patterns_to_remove) : Match(patterns_to_remove[i].chars, Spell[Name(p)])}
IsArtifact(p) == PatternsOf(p) # {}

\* C1 (error containment): the steps run in the fixed order, no call of
\* prepare_app ends by raising to its caller, and a call that has ended has
\* executed all six steps.
C1_ErrorContainment ==
    /\ IsPrefix(steps, AllSteps)
    /\ pc # "raised"
    /\ pc = "completed" => steps = AllSteps

\* C3 (metadata canonicalization): when the pipeline has finished,
\* metadata/default.meta is a file holding exactly the canonical document
\* and metadata/local.meta does not exist, whatever the metadata directory
\* held before.
C3_MetadataCanonical ==
    pc = "completed" =>
        /\ Get(fs, RootAt \o <<"metadata", "default.meta">>).kind = "file"
        /\ Get(fs, RootAt \o <<"metadata", "default.meta">>).data = default_meta_content
        /\ Get(fs, RootAt \o <<"metadata", "local.meta">>).kind = "none"

\* action (b) of fix_meta_files taken alone on filesystem f: create the
\* metadata directory, write default.meta
WriteAloneWorks(f, root) ==
    write_default_meta(f, root \o <<"metadata", "default.meta">>).err = ""

\* C8 (independent actions): whenever writing default.meta would itself
\* succeed, fix_meta_files leaves default.meta with the canonical content,
\* whether local.meta was absent, was deleted, or could not be deleted.
C8_WriteIndependent ==
    [][(pc = "meta" /\ WriteAloneWorks(fs, RootAt)) =>
          /\ Get(fs', RootAt \o <<"metadata", "default.meta">>).kind = "file"
          /\ Get(fs', RootAt \o <<"metadata", "default.meta">>).data = default_meta_content]_vars

\* a later pattern's match lies beneath a directory that an earlier pattern
\* matches
NestedMatch(f, root) ==
    \E q \in U : \E p \in U :
        /\ IsUnder(q, root) /\ IsUnder(p, q)
        /\ f[q].kind = "dir" /\ f[p].kind # "none"
        /\ \E i \in PatternsOf(q) : \E j \in PatternsOf(p) : i < j
\* nothing else stands in the way of a deletion: no symbolic link, and every
\* directory may be listed, searched and written
Unhindered(f, root) ==
    \A p \in U : InTree(p, root) =>
        /\ f[p].kind # "link"
        /\ f[p].kind = "dir" => (MayR(f[p]) /\ MayW(f[p]) /\ MayX(f[p]))

\* C5 (cleanup completeness): when the pipeline has finished, every entry
\* under the root whose name matched an artifact pattern before the run is
\* absent, whatever its kind; and where a later pattern's match lay beneath
\* a directory deleted under an earlier pattern, clean_app logged no error.
C5_CleanupComplete ==
    pc = "completed" =>
        /\ \A p \in U :
              (IsUnder(p, RootAt) /\ before[p].kind # "none" /\ IsArtifact(p))
                  => fs[p].kind = "none"
        /\ (NestedMatch(before, RootAt) /\ Unhindered(before, RootAt))
              => "clean" \notin errors

\* the text of default/app.conf, and what it says line by line: the section
\* a line stands in, the (section, key, value) triples, the section names
Doc(f) == Get(f, RootAt \o <<"default", "app.conf">>).data
SectionAt(lines, i) ==
    LET hs == {j \in 1..(i - 1) : lines[j].t = "sec"}
    IN  IF hs = {} THEN ""
        ELSE lines[CHOOSE j \in hs : \A h \in hs : h <= j].k
Pairs(lines) ==
    {<<SectionAt(lines, i), lines[i].k, lines[i].v>> :
        i \in {j \in 1..Len(lines) : lines[j].t = "opt"}}
Sections(lines) == {lines[i].k : i \in {j \in 1..Len(lines) : lines[j].t = "sec"}}
IsChecksum(t) == t[1] = "install" /\ t[2] = KEY
HoldsKey(lines) == \E t \in Pairs(lines) : IsChecksum(t)

\* C6 (config key removal): for every default/app.conf whose section
\* install holds install_source_checksum, fix_app_conf leaves a file in
\* which section install no longer holds the key while the sections and
\* every other key/value pair are the same as before.
C6_KeyRemoved ==
    [][(pc = "conf" /\ HoldsKey(Doc(fs))) =>
          /\ ~HoldsKey(Doc(fs'))
          /\ Pairs(Doc(fs')) = {t \in Pairs(Doc(fs)) : ~IsChecksum(t)}
          /\ Sections(Doc(fs')) = Sections(Doc(fs))]_vars

\* C4 (permission invariant): when the pipeline has finished, the root and
\* every directory under it have mode 0o755, every file named *.py or *.sh
\* has 0o755 and every other file 0o644.
C4_PolicyModes ==
    pc = "completed" =>
        \A p \in U : InTree(p, RootAt) =>
            /\ fs[p].kind = "dir" => fs[p].mode = dir_perms
            /\ fs[p].kind = "file" => fs[p].mode = policy_mode(fs, p)

\* the archive path <parent>/<name>.tar.gz of the root, the stored path of
\* an entry of the tree, and the tree as an archive would hold it
ArchiveOf(root) == Parent(root) \o <<Name(root) \o ".tar.gz">>
StoredPath(p, root) == <<Name(root)>> \o SubSeq(p, Len(root) + 1, Len(p))
TreeMembers(f, root) ==
    {Member(StoredPath(p, root), f[p]) : p \in {q \in U : InTree(q, root) /\ f[q].kind # "none"}}

\* C7 (archive layout): when the pipeline has finished on root
\* <parent>/<name>, <parent>/<name>.tar.gz exists, its first and only
\* top-level entry is <name>, every stored path starts with <name>, and the
\* archived entries with their contents are exactly the entries of the tree.
C7_ArchiveLayout ==
    pc = "completed" =>
        LET tar == ArchiveOf(RootAt)
            ms == IF tar \in TarNodes THEN tars[tar] ELSE <<>>
        IN  /\ Get(fs, tar).kind = "file"
            /\ ms # <<>>
            /\ \A i \in 1..Len(ms) : ms[i].name[1] = Name(RootAt)
            /\ {ms[i] : i \in 1..Len(ms)} = TreeMembers(fs, RootAt)

\* C2 (idempotence): when a second call of the pipeline on the same root
\* has finished, every entry of the tree is as the first call left it:
\* nothing was deleted or created, no content and no mode was changed.
C2_Idempotent ==
    (run > 1 /\ pc = "completed") =>
        \A p \in U : InTree(p, Resolve(env.cwd0, env.app_path)) => fs[p] = before[p]

\* the paths set_permissions changed the mode of, and the directories it listed
Chmodded == {walk[i].path : i \in {j \in 1..Len(walk) : walk[j].op = "chmod"}}
Scanned == {walk[i].path : i \in {j \in 1..Len(walk) : walk[j].op = "scan"}}

\* C9 (coverage of the permission walk): a directory is listed only after
\* its own mode was set; and when set_permissions has run without a failing
\* chmod, the mode of the root and of every directory and file under it was
\* set, every directory was listed and has mode 0o755, also a directory
\* whose mode before the walk forbade listing it.
C9_WalkCoverage ==
    pc = "archive" =>
        /\ \A i \in 1..Len(walk) :
              walk[i].op = "scan" =>
                  \E j \in 1..(i - 1) : walk[j] = Ev("chmod", walk[i].path)
        /\ "perms" \notin errors =>
              /\ RootAt \in Chmodded
              /\ \A p \in U :
                    (InTree(p, RootAt) /\ fs[p].kind \in {"dir", "file"}) =>
                        /\ p \in Chmodded
                        /\ fs[p].kind = "dir" => (p \in Scanned /\ fs[p].mode = dir_perms)

\* a walk by an unprivileged user over a tree whose bin directory had mode 0
\* reached bin/run.py
C9_Witness ==
    /\ pc = "archive" /\ run = 1 /\ ~env.isRoot /\ "perms" \notin errors
    /\ fs0[R \o <<"bin">>].kind = "dir" /\ fs0[R \o <<"bin">>].mode = 0
    /\ fs[R \o <<"bin", "run.py">>].kind = "file"
    /\ R \o <<"bin", "run.py">> \in Chmodded

\* the archive path as a call resolves it from working directory c
TarPathFrom(c) ==
    Resolve(c, PathParent(env.app_path)) \o <<PathName(env.app_path) \o ".tar.gz">>

\* C10 (same root within one call): the working directory stays what it
\* was at the start of the call until create_package runs; every executed
\* step resolved the root to the same directory; the archive path is
\* resolved from the working directory of the start; the directory added to
\* the archive is that same root; and after the call the working directory
\* is the parent of the root, not the directory of the start.
C10_SameRoot ==
    /\ pc \in {"verify", "clean", "conf", "meta", "perms", "archive"} => cwd = start
    /\ \A i \in 1..Len(steps) :
          steps[i] # "archive" => used[steps[i]] = RootAt
    /\ pc = "completed" =>
          /\ used.tar = TarPathFrom(start)
          /\ used.archive # <<>> => used.archive = RootAt
          /\ cwd = Resolve(start, PathParent(env.app_path))

\* a call given the relative path sub/app from w: it archived w/sub/app
\* into w/sub/app.tar.gz and ended in w/sub
C10_Witness ==
    /\ pc = "completed" /\ env.app_path = RelRoot /\ start = W
    /\ cwd = S /\ cwd # start
    /\ used.archive = R /\ used.tar = S \o <<"app.tar.gz">>
    /\ tars[S \o <<"app.tar.gz">>] # <<>>

====
